---- MODULE Spec2Model ----
(***************************************************************************)
(* The useVAD hook of src/next.config.ts as a state machine: the React     *)
(* state and refs of one mounted hook, the in-flight startVAD calls, the   *)
(* detector instances created by MicVAD.new with the callbacks registered  *)
(* on them, the pending-end timers handed to setTimeout, and the clock.    *)
(***************************************************************************)
EXTENDS Integers, FiniteSets, TLC

\* ------------------------------------------------------------------ bounds
\* Detector instances MicVAD.new may hand out in one run.
MaxInstances == 2
\* Timers setTimeout may hand out in one run.
MaxTimers == 2
\* The clock stops advancing here.
MaxTime == 2800

\* ------------------------------------------------- constants of the source
VAD_MIN_SPEECH_DURATION == 300
VAD_END_DELAY == 1500

\* null of the three refs (and the falsy value their truthiness tests see)
Null == 0

\* Amounts of time that may pass between two events.
Steps == {300, 1500}

Instances == 1..MaxInstances

VARIABLES
    mounted,              \* the component using the hook is mounted
    supportChecked,       \* the browser-support effect has run
    isSupported,          \* useState
    isVADActive,          \* useState
    isSpeaking,           \* useState
    vadInstanceRef,       \* useRef: Null or an instance id
    speechStartTimeRef,   \* useRef: Null or a Date.now() value
    speechEndTimeoutRef,  \* useRef: Null or a timer id
    now,                  \* Date.now()
    timers,               \* setTimeout callbacks not yet run nor cleared
    nextTimer,            \* next id setTimeout returns
    awaitingImport,       \* startVAD calls suspended at await import(...)
    awaitingNew,          \* startVAD calls suspended at await MicVAD.new(...)
    inst,                 \* instance id -> its lifecycle state
    \* history of the run, read by the properties only
    stopped,              \* stopVAD has returned and startVAD was not called since
    stopDuringInit,       \* ... and a startVAD was awaiting MicVAD.new when it ran
    segOpen,              \* consumer onSpeechStart delivered, no terminal event yet
    fired,                \* ids of the timers whose callback has run
    cancelled,            \* ids handed to clearTimeout
    doubleDestroy,        \* destroy() was called on a destroyed instance
    releaseFailed,        \* a pause() or destroy() of the library has thrown
    passedMin,            \* the open segment has passed the minimum-duration test
    last                  \* the step just taken and what it told the consumer

progVars == <<isSupported, isVADActive, isSpeaking, vadInstanceRef,
              speechStartTimeRef, speechEndTimeoutRef, timers, nextTimer,
              awaitingImport, awaitingNew, inst>>

vars == <<mounted, supportChecked, isSupported, isVADActive, isSpeaking,
          vadInstanceRef, speechStartTimeRef, speechEndTimeoutRef, now, timers,
          nextTimer, awaitingImport, awaitingNew, inst, stopped, stopDuringInit,
          segOpen, fired, cancelled, doubleDestroy, releaseFailed, passedMin, last>>

\* ----------------------------------------------------------------- helpers
Step(op, branch, notify) == [op |-> op, branch |-> branch, notify |-> notify]

\* An instance whose detector is running: it can deliver callbacks.
Live(i) == inst[i] \in {"listening", "speech"}

Created == {i \in Instances : inst[i] # "none"}

InFlight == awaitingImport + awaitingNew

\* Fault seeded for C6: clearTimeout is not called, the callback stays scheduled.
ClearTimeout_Noop(id) == timers

\* clearTimeout(id): the callback with that id will not run.
ClearTimeout(id) == {t \in timers : t.id # id}

\* vadInstanceRef.current.pause(); vadInstanceRef.current.destroy(); inside try/catch
ReleaseState(s, outcome) ==
    CASE outcome = "pauseThrows" -> s
      [] outcome = "destroyThrows" -> IF s = "destroyed" THEN s ELSE "paused"
      [] OTHER -> "destroyed"

\* Fault seeded for C9: the instance is released but vadInstanceRef.current keeps it.
ReleaseInstance_KeepRef(outcome) ==
    IF vadInstanceRef # Null
    THEN /\ inst' = [inst EXCEPT ![vadInstanceRef] = ReleaseState(@, outcome)]
         /\ doubleDestroy' = (doubleDestroy \/
                (outcome = "ok" /\ inst[vadInstanceRef] = "destroyed"))
         /\ releaseFailed' = (releaseFailed \/ outcome # "ok")
         /\ UNCHANGED vadInstanceRef
    ELSE /\ outcome = "ok"
         /\ UNCHANGED <<inst, doubleDestroy, releaseFailed, vadInstanceRef>>

\* if (vadInstanceRef.current) { try { pause(); destroy() } catch {} ; ref = null }
ReleaseInstance(outcome) ==
    IF vadInstanceRef # Null
    THEN /\ inst' = [inst EXCEPT ![vadInstanceRef] = ReleaseState(@, outcome)]
         /\ doubleDestroy' = (doubleDestroy \/
                (outcome = "ok" /\ inst[vadInstanceRef] = "destroyed"))
         /\ releaseFailed' = (releaseFailed \/ outcome # "ok")
         /\ vadInstanceRef' = Null
    ELSE /\ outcome = "ok"
         /\ UNCHANGED <<inst, doubleDestroy, releaseFailed, vadInstanceRef>>

\* ------------------------------------------------------------------- Init
Init ==
    /\ mounted = TRUE
    /\ supportChecked = FALSE
    /\ isSupported = FALSE
    /\ isVADActive = FALSE
    /\ isSpeaking = FALSE
    /\ vadInstanceRef = Null
    /\ speechStartTimeRef = Null
    /\ speechEndTimeoutRef = Null
    /\ now = 1000
    /\ timers = {}
    /\ nextTimer = 1
    /\ awaitingImport = 0
    /\ awaitingNew = 0
    /\ inst = [i \in Instances |-> "none"]
    /\ stopped = FALSE
    /\ stopDuringInit = FALSE
    /\ segOpen = FALSE
    /\ fired = {}
    /\ cancelled = {}
    /\ doubleDestroy = FALSE
    /\ releaseFailed = FALSE
    /\ passedMin = FALSE
    /\ last = Step("init", "", "none")

\* ---------------------------------------------------------------- actions
\* useEffect(() => { setIsSupported(hasAudioContext && hasGetUserMedia) }, [])
CheckSupport ==
    /\ mounted /\ ~supportChecked
    /\ supportChecked' = TRUE
    /\ \E s \in BOOLEAN : isSupported' = s
    /\ last' = Step("checkSupport", "", "none")
    /\ UNCHANGED <<mounted, isVADActive, isSpeaking, vadInstanceRef,
                   speechStartTimeRef, speechEndTimeoutRef, now, timers, nextTimer,
                   awaitingImport, awaitingNew, inst, stopped, stopDuringInit,
                   segOpen, fired, cancelled, doubleDestroy, releaseFailed,
                   passedMin>>

\* Fault seeded for C12: the support check is left out.
Unsupported_Unchecked == FALSE

\* if (!isSupported) { onError('VAD not supported'); return }
Unsupported == ~isSupported

\* Fault seeded for C7: the guard reads the isVADActive flag, not the held instance.
AlreadyActive_ByFlag == isVADActive

\* if (vadInstanceRef.current) return
AlreadyActive == vadInstanceRef # Null

\* startVAD, up to its first await (or its return)
StartVAD ==
    /\ mounted
    /\ stopped' = FALSE
    /\ stopDuringInit' = FALSE
    /\ IF Unsupported
       THEN /\ last' = Step("startVAD", "unsupported", "error")
            /\ UNCHANGED awaitingImport
       ELSE IF AlreadyActive
       THEN /\ last' = Step("startVAD", "already", "none")
            /\ UNCHANGED awaitingImport
       ELSE /\ Cardinality(Created) + InFlight < MaxInstances
            /\ awaitingImport' = awaitingImport + 1
            /\ last' = Step("startVAD", "begin", "none")
    /\ UNCHANGED <<mounted, supportChecked, isSupported, isVADActive, isSpeaking,
                   vadInstanceRef, speechStartTimeRef, speechEndTimeoutRef, now,
                   timers, nextTimer, awaitingNew, inst, segOpen, fired, cancelled,
                   doubleDestroy, releaseFailed,
                   passedMin>>

\* await import('@ricky0123/vad-web') resolves: the call goes on to MicVAD.new
ImportResolved ==
    /\ awaitingImport > 0
    /\ awaitingImport' = awaitingImport - 1
    /\ awaitingNew' = awaitingNew + 1
    /\ last' = Step("importResolved", "", "none")
    /\ UNCHANGED <<mounted, supportChecked, isSupported, isVADActive, isSpeaking,
                   vadInstanceRef, speechStartTimeRef, speechEndTimeoutRef, now,
                   timers, nextTimer, inst, stopped, stopDuringInit, segOpen, fired,
                   cancelled, doubleDestroy, releaseFailed,
                   passedMin>>

\* catch (error) { onError('Failed to start voice detection'); setIsVADActive(false) }
CatchStartError ==
    /\ isVADActive' = FALSE

\* await import(...) rejects
ImportRejected ==
    /\ awaitingImport > 0
    /\ awaitingImport' = awaitingImport - 1
    /\ CatchStartError
    /\ last' = Step("importRejected", "", "error")
    /\ UNCHANGED <<mounted, supportChecked, isSupported, isSpeaking,
                   vadInstanceRef, speechStartTimeRef, speechEndTimeoutRef, now,
                   timers, nextTimer, awaitingNew, inst, stopped, stopDuringInit,
                   segOpen, fired, cancelled, doubleDestroy, releaseFailed,
                   passedMin>>

\* await MicVAD.new(...) resolves: vadInstanceRef.current = vad; vad.start();
\* setIsVADActive(true)   (vad.start() may throw into the catch)
NewResolved ==
    /\ awaitingNew > 0
    /\ awaitingNew' = awaitingNew - 1
    /\ \E i \in Instances :
        /\ i = Cardinality(Created) + 1
        /\ vadInstanceRef' = i
        /\ \E startThrows \in BOOLEAN :
            IF startThrows
            THEN /\ inst' = [inst EXCEPT ![i] = "created"]
                 /\ CatchStartError
                 /\ last' = Step("newResolved", "startThrows", "error")
            ELSE /\ inst' = [inst EXCEPT ![i] = "listening"]
                 /\ isVADActive' = TRUE
                 /\ last' = Step("newResolved", "started", "none")
    /\ UNCHANGED <<mounted, supportChecked, isSupported, isSpeaking,
                   speechStartTimeRef, speechEndTimeoutRef, now, timers, nextTimer,
                   awaitingImport, stopped, stopDuringInit, segOpen, fired,
                   cancelled, doubleDestroy, releaseFailed,
                   passedMin>>

\* await MicVAD.new(...) rejects
NewRejected ==
    /\ awaitingNew > 0
    /\ awaitingNew' = awaitingNew - 1
    /\ CatchStartError
    /\ last' = Step("newRejected", "", "error")
    /\ UNCHANGED <<mounted, supportChecked, isSupported, isSpeaking,
                   vadInstanceRef, speechStartTimeRef, speechEndTimeoutRef, now,
                   timers, nextTimer, awaitingImport, inst, stopped, stopDuringInit,
                   segOpen, fired, cancelled, doubleDestroy, releaseFailed,
                   passedMin>>

\* the onSpeechStart callback registered with MicVAD.new, called by instance i
OnSpeechStart(i) ==
    /\ inst[i] = "listening"
    /\ inst' = [inst EXCEPT ![i] = "speech"]
    /\ speechStartTimeRef' = now
    /\ IF speechEndTimeoutRef # Null
       THEN /\ timers' = ClearTimeout(speechEndTimeoutRef)
            /\ cancelled' = cancelled \cup {speechEndTimeoutRef}
            /\ speechEndTimeoutRef' = Null
       ELSE UNCHANGED <<timers, cancelled, speechEndTimeoutRef>>
    /\ isSpeaking' = TRUE
    /\ segOpen' = TRUE
    /\ passedMin' = (speechEndTimeoutRef # Null /\ passedMin)
    /\ last' = Step("onSpeechStart", IF speechEndTimeoutRef # Null THEN "recovered" ELSE "fresh", "start")
    /\ UNCHANGED <<mounted, supportChecked, isSupported, isVADActive,
                   vadInstanceRef, now, nextTimer, awaitingImport, awaitingNew,
                   stopped, stopDuringInit, fired, doubleDestroy, releaseFailed>>

\* speechStartTimeRef.current ? Date.now() - speechStartTimeRef.current : 0
SpeechDuration ==
    IF speechStartTimeRef # Null THEN now - speechStartTimeRef ELSE 0

\* Fault seeded for C3: the comparison is reversed.
TooShort_Inverted == SpeechDuration > VAD_MIN_SPEECH_DURATION

\* Fault seeded for C4: the comparison includes the minimum itself.
TooShort_Inclusive == SpeechDuration <= VAD_MIN_SPEECH_DURATION

\* if (speechDuration < VAD_MIN_SPEECH_DURATION)
TooShort == SpeechDuration < VAD_MIN_SPEECH_DURATION

\* the onSpeechEnd callback registered with MicVAD.new, called by instance i
OnSpeechEnd(i) ==
    /\ inst[i] = "speech"
    /\ inst' = [inst EXCEPT ![i] = "listening"]
    /\ IF TooShort
       THEN /\ isSpeaking' = FALSE
            /\ segOpen' = FALSE
            /\ passedMin' = FALSE
            /\ last' = Step("onSpeechEnd", "tooShort", "none")
            /\ UNCHANGED <<timers, nextTimer, speechEndTimeoutRef>>
       ELSE /\ nextTimer <= MaxTimers
            /\ timers' = timers \cup {[id |-> nextTimer, due |-> now + VAD_END_DELAY]}
            /\ speechEndTimeoutRef' = nextTimer
            /\ nextTimer' = nextTimer + 1
            /\ last' = Step("onSpeechEnd", "pending", "none")
            /\ passedMin' = TRUE
            /\ UNCHANGED <<isSpeaking, segOpen>>
    /\ UNCHANGED <<mounted, supportChecked, isSupported, isVADActive,
                   vadInstanceRef, speechStartTimeRef, now, awaitingImport,
                   awaitingNew, stopped, stopDuringInit, fired, cancelled,
                   doubleDestroy, releaseFailed>>

\* the onVADMisfire callback registered with MicVAD.new, called by instance i
OnVADMisfire(i) ==
    /\ inst[i] = "speech"
    /\ inst' = [inst EXCEPT ![i] = "listening"]
    /\ isSpeaking' = FALSE
    /\ segOpen' = FALSE
    /\ passedMin' = FALSE
    /\ last' = Step("onVADMisfire", "", "none")
    /\ UNCHANGED <<mounted, supportChecked, isSupported, isVADActive,
                   vadInstanceRef, speechStartTimeRef, speechEndTimeoutRef, now,
                   timers, nextTimer, awaitingImport, awaitingNew, stopped,
                   stopDuringInit, fired, cancelled, doubleDestroy, releaseFailed>>

\* the detector of instance i fails while running; MicVAD.new was given no
\* callback for it, so no code of the hook runs
DetectorFailure(i) ==
    /\ Live(i)
    /\ inst' = [inst EXCEPT ![i] = "failed"]
    /\ last' = Step("detectorFailure", "", "none")
    /\ UNCHANGED <<mounted, supportChecked, isSupported, isVADActive, isSpeaking,
                   vadInstanceRef, speechStartTimeRef, speechEndTimeoutRef, now,
                   timers, nextTimer, awaitingImport, awaitingNew, stopped,
                   stopDuringInit, segOpen, fired, cancelled, doubleDestroy,
                   releaseFailed, passedMin>>

\* optionsRef.current.onSpeechEnd?.(): the arguments the consumer is called with
\* (the audio the detector handed to onSpeechEnd is logged by its length only)
ConsumerEndArgs == <<>>

\* Fault seeded for C5: the callback is registered with setInterval and stays scheduled.
TimersAfterFire_Interval(t) == timers

\* setTimeout is single-shot: a callback that has run is no longer scheduled
TimersAfterFire(t) == timers \ {t}

\* the callback handed to setTimeout, run at or after its due time
TimerFire(t) ==
    /\ t \in timers
    /\ now >= t.due
    /\ timers' = TimersAfterFire(t)
    /\ fired' = fired \cup {t.id}
    /\ isSpeaking' = FALSE
    /\ speechEndTimeoutRef' = Null
    /\ segOpen' = FALSE
    /\ passedMin' = FALSE
    /\ last' = [op |-> "timerFire", branch |-> "", notify |-> "end",
                args |-> ConsumerEndArgs]
    /\ UNCHANGED <<mounted, supportChecked, isSupported, isVADActive,
                   vadInstanceRef, speechStartTimeRef, now, nextTimer,
                   awaitingImport, awaitingNew, inst, stopped, stopDuringInit,
                   cancelled, doubleDestroy, releaseFailed>>

\* stopVAD
StopVAD ==
    /\ mounted
    /\ IF speechEndTimeoutRef # Null
       THEN /\ timers' = ClearTimeout(speechEndTimeoutRef)
            /\ cancelled' = cancelled \cup {speechEndTimeoutRef}
            /\ speechEndTimeoutRef' = Null
       ELSE UNCHANGED <<timers, cancelled, speechEndTimeoutRef>>
    /\ \E outcome \in {"ok", "pauseThrows", "destroyThrows"} :
        /\ ReleaseInstance(outcome)
        /\ last' = Step("stopVAD", IF vadInstanceRef = Null THEN "nothing" ELSE outcome, "none")
    /\ isVADActive' = FALSE
    /\ isSpeaking' = FALSE
    /\ speechStartTimeRef' = Null
    /\ stopped' = TRUE
    /\ stopDuringInit' = (awaitingNew > 0)
    /\ segOpen' = FALSE
    /\ passedMin' = FALSE
    /\ UNCHANGED <<mounted, supportChecked, isSupported, now, nextTimer,
                   awaitingImport, awaitingNew, fired>>

\* the cleanup returned by the unmount effect
Unmount ==
    /\ mounted
    /\ mounted' = FALSE
    /\ IF speechEndTimeoutRef # Null
       THEN /\ timers' = ClearTimeout(speechEndTimeoutRef)
            /\ cancelled' = cancelled \cup {speechEndTimeoutRef}
       ELSE UNCHANGED <<timers, cancelled>>
    /\ \E outcome \in {"ok", "pauseThrows", "destroyThrows"} :
        /\ ReleaseInstance(outcome)
        /\ last' = Step("unmount", outcome, "none")
    /\ UNCHANGED <<supportChecked, isSupported, isVADActive, isSpeaking,
                   speechStartTimeRef, speechEndTimeoutRef, now, nextTimer,
                   awaitingImport, awaitingNew, stopped, stopDuringInit, segOpen,
                   fired, passedMin>>

\* time passes
Tick(d) ==
    /\ now + d <= MaxTime
    /\ now' = now + d
    /\ last' = Step("tick", "", "none")
    /\ UNCHANGED <<mounted, supportChecked, isSupported, isVADActive, isSpeaking,
                   vadInstanceRef, speechStartTimeRef, speechEndTimeoutRef, timers,
                   nextTimer, awaitingImport, awaitingNew, inst, stopped,
                   stopDuringInit, segOpen, fired, cancelled, doubleDestroy, releaseFailed,
                   passedMin>>

Next ==
    \/ CheckSupport
    \/ StartVAD
    \/ ImportResolved
    \/ ImportRejected
    \/ NewResolved
    \/ NewRejected
    \/ \E i \in Instances : OnSpeechStart(i)
    \/ \E i \in Instances : OnSpeechEnd(i)
    \/ \E i \in Instances : OnVADMisfire(i)
    \/ \E t \in timers : TimerFire(t)
    \/ StopVAD
    \/ Unmount
    \/ \E d \in Steps : Tick(d)

Spec == Init /\ [][Next]_vars

\* The same hook with detectors that may also fail while running.
NextWithFailure ==
    \/ Next
    \/ \E i \in Instances : DetectorFailure(i)

SpecFailure == Init /\ [][NextWithFailure]_vars

\* ------------------------------------------------------------- properties
\* Consumer notifications that report speech (options.onSpeechStart / onSpeechEnd).
SpeechNotification == {"start", "end"}

\* The timer speechEndTimeoutRef holds is no longer scheduled after the step.
HeldTimerGone == \A t \in timers' : t.id # speechEndTimeoutRef

\* C1: once stopVAD has returned, and until startVAD is called again, no
\* onSpeechStart/onSpeechEnd reaches the consumer and isSpeaking is never true
\* (stated for the runs in which pause() and destroy() never throw).
C1_SilentAfterStop ==
    (stopped /\ ~releaseFailed) =>
        (isSpeaking = FALSE /\ last.notify \notin SpeechNotification)

\* C2: a consumer onSpeechStart is delivered only when the previous segment has
\* had its terminal event (misfire, too-short discard or consumer onSpeechEnd):
\* no second SpeechStarted while a segment is open, a recovery from PendingEnd
\* included.
C2_OneStartPerSegment ==
    [][last'.op = "onSpeechStart" /\ last'.notify = "start" => ~segOpen]_vars

\* C3: a detector speech end less than VAD_MIN_SPEECH_DURATION after the
\* recorded speech start schedules no timer (so no consumer onSpeechEnd can
\* follow from it), calls no consumer callback and sets isSpeaking to false.
C3_ShortEndIsMisfire ==
    [][(/\ last'.op = "onSpeechEnd"
        /\ speechStartTimeRef # Null
        /\ now - speechStartTimeRef < VAD_MIN_SPEECH_DURATION)
       => (/\ timers' = timers
           /\ nextTimer' = nextTimer
           /\ speechEndTimeoutRef' = speechEndTimeoutRef
           /\ isSpeaking' = FALSE
           /\ last'.notify = "none")]_vars

\* C3 witness: a too-short speech end has just been handled, with a recorded start.
C3_Witness ==
    /\ last.op = "onSpeechEnd"
    /\ last.branch = "tooShort"
    /\ speechStartTimeRef # Null
    /\ now - speechStartTimeRef < VAD_MIN_SPEECH_DURATION
    /\ isSpeaking = FALSE

\* C4: a detector speech end at least VAD_MIN_SPEECH_DURATION after the recorded
\* start schedules a timer due VAD_END_DELAY later, held by speechEndTimeoutRef,
\* and leaves isSpeaking true; a detector speech start that finds a timer held
\* cancels it, clears the handle and sets isSpeaking, telling the consumer no
\* onSpeechEnd; and a timer that was cancelled never runs its callback.
C4_PendingEndAndRecovery ==
    [][/\ (/\ last'.op = "onSpeechEnd"
           /\ speechStartTimeRef # Null
           /\ now - speechStartTimeRef >= VAD_MIN_SPEECH_DURATION)
          => (/\ speechEndTimeoutRef' # Null
              /\ speechEndTimeoutRef' \notin {t.id : t \in timers}
              /\ timers' = timers \cup
                    {[id |-> speechEndTimeoutRef', due |-> now + VAD_END_DELAY]}
              /\ (isSpeaking => isSpeaking')
              /\ last'.notify = "none")
       /\ (last'.op = "onSpeechStart" /\ speechEndTimeoutRef # Null)
          => (/\ HeldTimerGone
              /\ speechEndTimeoutRef' = Null
              /\ isSpeaking' = TRUE
              /\ last'.notify # "end")
       /\ fired' \cap cancelled' = {}]_vars

\* C4 witness: a speech start has just cancelled the timer of a pause that came
\* after at least the minimum duration; the state is Speaking again.
C4_Witness ==
    /\ last.op = "onSpeechStart"
    /\ last.branch = "recovered"
    /\ cancelled # {}
    /\ timers = {}
    /\ speechEndTimeoutRef = Null
    /\ isSpeaking = TRUE

\* C5: when the callback of a pending-end timer runs, the consumer onSpeechEnd
\* is called, isSpeaking becomes false and the handle is cleared; that timer
\* had not run before and is not scheduled afterwards (once per timer).
C5_TimerFireEndsSpeech ==
    [][last'.op = "timerFire"
       => (/\ last'.notify = "end"
           /\ isSpeaking' = FALSE
           /\ speechEndTimeoutRef' = Null
           /\ \E t \in timers :
                /\ t.id \notin fired
                /\ fired' = fired \cup {t.id}
                /\ timers' = timers \ {t}
                /\ now >= t.due)]_vars

\* C5 witness: the callback of the only timer ever scheduled has just run.
C5_Witness ==
    /\ last.op = "timerFire"
    /\ fired = {1}
    /\ cancelled = {}
    /\ isSpeaking = FALSE
    /\ speechEndTimeoutRef = Null

\* C6: stopVAD called while speechEndTimeoutRef holds a timer cancels that timer
\* and leaves the handle cleared, isSpeaking false and speechStartTime null,
\* calling no consumer callback; a cancelled timer never runs its callback.
C6_StopCancelsPendingEnd ==
    [][/\ (last'.op = "stopVAD" /\ speechEndTimeoutRef # Null)
          => (/\ HeldTimerGone
              /\ speechEndTimeoutRef \in cancelled'
              /\ speechEndTimeoutRef' = Null
              /\ isSpeaking' = FALSE
              /\ speechStartTimeRef' = Null
              /\ last'.notify = "none")
       /\ last'.op = "timerFire" => (fired' \ fired) \cap cancelled = {}]_vars

\* C6 witness: stopVAD has just run with a timer pending, and cancelled it.
C6_Witness ==
    /\ last.op = "stopVAD"
    /\ cancelled # {}
    /\ fired = {}
    /\ timers = {}
    /\ isSpeaking = FALSE

\* C7: startVAD called while vadInstanceRef holds an instance changes nothing
\* (no call starts initialising, no instance is created, the flags, the start
\* time and the timers stay as they are) and reports no error.
C7_StartWhenActiveIsNoOp ==
    [][(last'.op = "startVAD" /\ vadInstanceRef # Null)
       => (UNCHANGED progVars /\ last'.notify = "none")]_vars

\* C7 witness: startVAD has just returned at the already-active guard while
\* speech was in progress.
C7_Witness ==
    /\ last.op = "startVAD"
    /\ last.branch = "already"
    /\ vadInstanceRef # Null
    /\ isSpeaking = TRUE

\* C8: at most one detector instance is live at a time, and every instance
\* that was created and not destroyed is the one vadInstanceRef holds
\* (stated for the runs in which pause() and destroy() never throw).
C8_SingleReachableInstance ==
    ~releaseFailed =>
        /\ Cardinality({i \in Instances : Live(i)}) <= 1
        /\ \A i \in Instances :
              inst[i] \notin {"none", "destroyed"} => vadInstanceRef = i

\* C9: stopVAD leaves the timer handle and the instance handle cleared,
\* isVADActive and isSpeaking false and speechStartTime null; a stopVAD that
\* directly follows a stopVAD changes nothing and destroys nothing, and no
\* instance is ever destroyed twice.
C9_StopIdempotent ==
    [][last'.op = "stopVAD"
       => (/\ speechEndTimeoutRef' = Null
           /\ HeldTimerGone
           /\ vadInstanceRef' = Null
           /\ isVADActive' = FALSE
           /\ isSpeaking' = FALSE
           /\ speechStartTimeRef' = Null
           /\ doubleDestroy' = FALSE
           /\ (last.op = "stopVAD" => UNCHANGED progVars))]_vars

\* C9 witness: stopVAD has just run with nothing left to release, an earlier
\* stopVAD having destroyed the instance.
C9_Witness ==
    /\ last.op = "stopVAD"
    /\ last.branch = "nothing"
    /\ stopped
    /\ \E i \in Instances : inst[i] = "destroyed"
    /\ vadInstanceRef = Null
    /\ speechEndTimeoutRef = Null

\* C10: if stopVAD ran while a startVAD was awaiting MicVAD.new and startVAD
\* was not called since, then once no startVAD is in flight there is no live
\* instance and isVADActive is false
\* (stated for the runs in which pause() and destroy() never throw).
C10_StopReleasesDuringInit ==
    (stopDuringInit /\ InFlight = 0 /\ ~releaseFailed) =>
        (isVADActive = FALSE /\ \A i \in Instances : ~Live(i))

\* The step just taken was a startVAD failing in its try block.
InitFailed ==
    \/ last.op \in {"importRejected", "newRejected"}
    \/ (last.op = "newResolved" /\ last.branch = "startThrows")

\* C11: when startVAD fails at the import, at MicVAD.new or at vad.start(), the
\* consumer gets onError, isVADActive is false, and an instance the failed call
\* had created is not held any more (so that a later startVAD is not taken for
\* already active).
C11_FailedInitIsReleased ==
    InitFailed =>
        /\ last.notify = "error"
        /\ isVADActive = FALSE
        /\ (last.branch = "startThrows" => vadInstanceRef = Null)

\* C12: startVAD called while isSupported is false reports through onError and
\* changes nothing: no call starts initialising, no instance is created, the
\* flags, refs and timers stay as they are.
C12_UnsupportedStartOnlyReports ==
    [][(last'.op = "startVAD" /\ ~isSupported)
       => (UNCHANGED progVars /\ last'.notify = "error")]_vars

\* C12 witness: the support effect has found the environment unsupported and
\* startVAD has just returned after reporting it.
C12_Witness ==
    /\ last.op = "startVAD"
    /\ last.branch = "unsupported"
    /\ last.notify = "error"
    /\ supportChecked /\ ~isSupported
    /\ awaitingImport = 0 /\ Created = {}
    /\ ~isVADActive /\ ~isSpeaking

\* C13: speechStartTime is non-null exactly when isSpeaking is true.
C13_StartTimeIffSpeaking ==
    mounted => ((speechStartTimeRef # Null) <=> isSpeaking)

\* C14: at most one pending-end timer is outstanding at any time
\* (stated for the runs in which pause() and destroy() never throw).
C14_OneTimerOutstanding ==
    ~releaseFailed => Cardinality(timers) <= 1

\* C15: a speech end of a segment that has already passed the minimum-duration
\* test (it entered PendingEnd and recovered) is not discarded as too short.
C15_PassedSegmentNotDiscarded ==
    [][(last'.op = "onSpeechEnd" /\ passedMin) => last'.branch # "tooShort"]_vars

\* C16: when the consumer onSpeechEnd is called it is handed the audio of the
\* segment.
C16_SpeechEndCarriesAudio ==
    last.notify = "end" => last.args # <<>>

\* C17: when a running detector fails, the segmenter is forced to Idle
\* (isSpeaking false, no timer held or scheduled) and the consumer gets onError.
C17_RuntimeFailureSurfaced ==
    last.op = "detectorFailure" =>
        /\ isSpeaking = FALSE
        /\ speechEndTimeoutRef = Null
        /\ timers = {}
        /\ last.notify = "error"

\* C18: while the component is mounted, isSpeaking true implies isVADActive
\* true and an instance held by vadInstanceRef
\* (stated for the runs in which pause() and destroy() never throw).
C18_SpeakingImpliesActive ==
    (mounted /\ ~releaseFailed /\ isSpeaking) =>
        (isVADActive /\ vadInstanceRef # Null)

\* C19: while the component is mounted, a pending-end timer is outstanding
\* only with isSpeaking true and an instance held by vadInstanceRef
\* (stated for the runs in which pause() and destroy() never throw; every
\* instance delivers a speech start before each speech end or misfire).
C19_TimerImpliesSpeaking ==
    (mounted /\ ~releaseFailed /\ timers # {}) =>
        (isSpeaking /\ vadInstanceRef # Null)

\* C20: after the unmount cleanup no timer callback runs, the consumer is told
\* of no speech event and no detector instance is live
\* (stated for the runs in which pause() and destroy() never throw).
C20_QuietAfterUnmount ==
    (~mounted /\ ~releaseFailed) =>
        /\ last.op # "timerFire"
        /\ last.notify \notin SpeechNotification
        /\ \A i \in Instances : ~Live(i)

====
